---- MODULE Spec2Model ----
(***************************************************************************)
(* bunr: change classification and attribution pipeline.                   *)
(*                                                                         *)
(*   GitUtils        src/src/utils/types.ts          (class at line 371)   *)
(*   WorkspaceUtils  src/src/utils/WorkspaceUtils.ts                       *)
(*                                                                         *)
(* Text that the code inspects character by character (paths, names) is a  *)
(* sequence of one-character strings: "p/a" is <<"p", "/", "a">>.  Text    *)
(* that the code only compares or copies (refs, hashes, commit types, note *)
(* titles) is a TLA+ string.  An optional value is a sequence of length 0  *)
(* (null / undefined) or 1.                                                *)
(***************************************************************************)
EXTENDS Integers, Sequences, FiniteSets, TLC

VARIABLES
    \* determineReleaseType / the classification part of getCommitsInRange
    parsed, classified,
    \* isFileInPackage
    filePath, packagePath, inPackage,
    \* analyzePackageChanges
    workspacePackages, commits, packageChangesMap, aggPc, aggResult,
    \* WorkspaceUtils: the manifests on disk, the instance fields, the last call
    rootManifest, dirManifest,
    rootPackageJson, isMonorepo, workspaceMembers,
    wsCall, wsReturn,
    \* how many times the discovery loop of getWorkspacePackages was entered
    discoveryRuns,
    \* the calls in flight on the instance when calls overlap, in start order
    calls,
    \* GitUtils.getCommitsInRange: the repository, the last call
    history, tagListing, rangeCall, rangeReturn, tagsReturn

clsVars == <<parsed, classified>>
memVars == <<filePath, packagePath, inPackage>>
aggVars == <<workspacePackages, commits, packageChangesMap, aggPc, aggResult>>
wsVars == <<rootManifest, dirManifest, rootPackageJson, isMonorepo, workspaceMembers,
           wsCall, wsReturn, discoveryRuns, calls>>
rngVars == <<history, tagListing, rangeCall, rangeReturn, tagsReturn>>
vars == <<clsVars, memVars, aggVars, wsVars, rngVars>>

----------------------------------------------------------------------------
(* Bounds                                                                  *)

MaxNotes == 2
MaxPathLen == 4
MaxMembers == 2
MaxCommits == 2
MaxFiles == 1
MaxPatterns == 2
MaxHistory == 2
MaxTags == 2
MaxCalls == 2

----------------------------------------------------------------------------
(* Generic helpers                                                         *)

Null == <<>>
Some(v) == <<v>>

SeqsUpTo(S, n) == UNION {[1..k -> S] : k \in 0..n}

Range(s) == {s[i] : i \in 1..Len(s)}

\* String.prototype.startsWith
StartsWith(s, prefix) ==
    /\ Len(prefix) <= Len(s)
    /\ \A i \in 1..Len(prefix) : s[i] = prefix[i]

\* String.prototype.includes, for a one-character needle
Includes(s, ch) == \E i \in 1..Len(s) : s[i] = ch

\* path.sep on the platforms bunr's git paths use
sep == "/"

----------------------------------------------------------------------------
(* node:path (posix), as far as the code uses it                           *)

RECURSIVE SplitAcc(_, _, _, _)
SplitAcc(s, i, cur, acc) ==
    IF i > Len(s) THEN Append(acc, cur)
    ELSE IF s[i] = sep THEN SplitAcc(s, i + 1, <<>>, Append(acc, cur))
    ELSE SplitAcc(s, i + 1, Append(cur, s[i]), acc)

\* String.prototype.split("/")
Split(s) == SplitAcc(s, 1, <<>>, <<>>)

RECURSIVE Join(_)
Join(segs) ==
    IF Len(segs) = 0 THEN <<>>
    ELSE IF Len(segs) = 1 THEN segs[1]
    ELSE segs[1] \o <<sep>> \o Join(Tail(segs))

Dot == <<".">>
DotDot == <<".", ".">>

\* normalizeString: drops empty and "." segments, resolves ".." against the
\* segment before it, keeps a leading ".." only when allowAboveRoot
RECURSIVE NormalizeSegs(_, _, _)
NormalizeSegs(segs, res, allowAboveRoot) ==
    IF Len(segs) = 0 THEN res
    ELSE LET seg == Head(segs)
             rest == Tail(segs)
         IN  IF seg = <<>> \/ seg = Dot
                 THEN NormalizeSegs(rest, res, allowAboveRoot)
             ELSE IF seg = DotDot
                 THEN IF Len(res) > 0 /\ res[Len(res)] # DotDot
                          THEN NormalizeSegs(rest, SubSeq(res, 1, Len(res) - 1), allowAboveRoot)
                      ELSE IF allowAboveRoot
                          THEN NormalizeSegs(rest, Append(res, seg), allowAboveRoot)
                      ELSE NormalizeSegs(rest, res, allowAboveRoot)
             ELSE NormalizeSegs(rest, Append(res, seg), allowAboveRoot)

\* path.normalize
normalize(p) ==
    IF Len(p) = 0 THEN Dot
    ELSE LET isAbsolute == p[1] = sep
             trailingSeparator == p[Len(p)] = sep
             body == Join(NormalizeSegs(Split(p), <<>>, ~isAbsolute))
         IN  IF Len(body) = 0
                 THEN IF isAbsolute THEN <<sep>>
                      ELSE IF trailingSeparator THEN <<".", sep>> ELSE Dot
             ELSE (IF isAbsolute THEN <<sep>> ELSE <<>>)
                  \o body
                  \o (IF trailingSeparator THEN <<sep>> ELSE <<>>)

----------------------------------------------------------------------------
(* Commit Classifier: GitUtils.determineReleaseType and the fields that    *)
(* getCommitsInRange derives from the parser's output                      *)

\* The parser's output, as far as the code reads it: parsed.type (null when
\* the header does not parse) and the titles of parsed.notes.
CommitTypes == {"feat", "fix", "perf", "docs", "chore"}
NoteTitles == {"BREAKING CHANGE", "BREAKING-CHANGE", "Closes"}

ParsedCommits ==
    [type : {Null} \cup {Some(t) : t \in CommitTypes},
     notes : {Null} \cup {Some(ns) : ns \in SeqsUpTo(NoteTitles, MaxNotes)}]

\* parsed.notes?.some((note) => note.title === "BREAKING CHANGE")
hasBreakingNote(p) ==
    /\ p.notes # Null
    /\ \E i \in 1..Len(p.notes[1]) : p.notes[1][i] = "BREAKING CHANGE"

determineReleaseType_featAsPatch(p) ==
    IF hasBreakingNote(p) THEN "major" ELSE "patch"

determineReleaseType(p) ==
    IF hasBreakingNote(p) THEN "major"
    ELSE IF p.type = Some("feat") THEN "minor"
    ELSE IF p.type = Some("fix") \/ p.type = Some("perf") THEN "patch"
    ELSE "patch"

\* releaseType, isBreaking and type of the assembled record
classify(p) ==
    [releaseType |-> determineReleaseType(p),
     isBreaking |-> hasBreakingNote(p),
     type |-> IF p.type = Null THEN "unknown" ELSE p.type[1]]

----------------------------------------------------------------------------
(* GitUtils.isFileInPackage                                                *)

isFileInPackage(file, pkg) ==
    LET normalizedFilePath == normalize(file)
        normalizedPackagePath == normalize(pkg)
    IN  IF normalizedPackagePath = Dot \/ normalizedPackagePath = <<>>
            THEN \/ ~Includes(normalizedFilePath, sep)
                 \/ StartsWith(normalizedFilePath, Dot)
        ELSE \/ StartsWith(normalizedFilePath, normalizedPackagePath \o <<sep>>)
             \/ normalizedFilePath = normalizedPackagePath

----------------------------------------------------------------------------
(* Package Impact Aggregator: GitUtils.analyzePackageChanges               *)

ReleaseTypes == {"major", "minor", "patch"}

\* packageChangesMap.set(pkg.name, {...}): a Map keeps one entry per key, at
\* the position of the key's first insertion, holding the last value set
MapSet(map, rec) ==
    IF \E i \in 1..Len(map) : map[i].packageName = rec.packageName
        THEN [i \in 1..Len(map) |->
                 IF map[i].packageName = rec.packageName THEN rec ELSE map[i]]
    ELSE Append(map, rec)

\* "Initialize the map with all workspace packages"
RECURSIVE InitMap(_, _)
InitMap(pkgs, map) ==
    IF Len(pkgs) = 0 THEN map
    ELSE InitMap(Tail(pkgs),
                 MapSet(map, [packageName |-> Head(pkgs).name,
                              packagePath |-> Head(pkgs).relativePath,
                              affectingCommits |-> <<>>,
                              suggestedReleaseType |-> "patch"]))

\* the Set<string> of names filled by the two nested loops over
\* commit.changedFiles and workspacePackages
affectedPackages(commit, pkgs) ==
    {pkgs[j].name : j \in {k \in 1..Len(pkgs) :
        \E i \in 1..Len(commit.changedFiles) :
            isFileInPackage(commit.changedFiles[i], pkgs[k].relativePath)}}

raiseReleaseType_lastWins(current, incoming) == incoming

\* "Update the suggested release type to the highest impact level"
raiseReleaseType(current, incoming) ==
    IF incoming = "major" \/ (incoming = "minor" /\ current = "patch")
        THEN incoming
    ELSE current

\* one iteration of "for (const commit of commits)": every affected name has
\* exactly one map entry, so the entries are updated independently
processCommit(map, commit, pkgs) ==
    LET affected == affectedPackages(commit, pkgs)
    IN  [i \in 1..Len(map) |->
            IF map[i].packageName \in affected
                THEN [map[i] EXCEPT
                        !.affectingCommits = Append(@, commit),
                        !.suggestedReleaseType = raiseReleaseType(@, commit.releaseType)]
            ELSE map[i]]

\* Array.from(map.values()).filter(pkg => pkg.affectingCommits.length > 0)
affectedOnly(map) == SelectSeq(map, LAMBDA rec : Len(rec.affectingCommits) > 0)

\* Inputs.  Members: two names, two directories of which one is a string
\* prefix of the other.  Files: one file under each directory.
P_a == <<"p", "/", "a">>
P_ab == <<"p", "/", "a", "b">>
AggNames == {<<"a">>, <<"b">>}
AggMembers == [name : AggNames, relativePath : {P_a, P_ab}]
AggFiles == {P_a \o <<"/", "x">>, P_ab \o <<"/", "x">>}
AggCommitInputs ==
    [releaseType : ReleaseTypes, changedFiles : SeqsUpTo(AggFiles, MaxFiles)]

AggIdle ==
    /\ workspacePackages = <<>>
    /\ commits = <<>>
    /\ packageChangesMap = <<>>
    /\ aggPc = "idle"
    /\ aggResult = <<>>

\* entry of analyzePackageChanges(commits, workspacePackages), up to the loop
AnalyzeStart(pkgs) ==
    /\ aggPc = "idle"
    /\ workspacePackages' = pkgs
    /\ commits' = <<>>
    /\ packageChangesMap' = InitMap(pkgs, <<>>)
    /\ aggPc' = "loop"
    /\ UNCHANGED <<aggResult, clsVars, memVars, wsVars, rngVars>>

\* one iteration of the loop over the commits argument; commits holds the
\* part of the argument consumed so far, hash identifies the commit
AnalyzeCommit(c) ==
    /\ aggPc = "loop"
    /\ Len(commits) < MaxCommits
    /\ LET commit == [hash |-> Len(commits) + 1,
                      releaseType |-> c.releaseType,
                      changedFiles |-> c.changedFiles]
       IN  /\ commits' = Append(commits, commit)
           /\ packageChangesMap' = processCommit(packageChangesMap, commit, workspacePackages)
    /\ UNCHANGED <<workspacePackages, aggPc, aggResult, clsVars, memVars, wsVars, rngVars>>

\* end of the commits argument: the filtered values are returned
AnalyzeReturn ==
    /\ aggPc = "loop"
    /\ aggResult' = affectedOnly(packageChangesMap)
    /\ aggPc' = "done"
    /\ UNCHANGED <<workspacePackages, commits, packageChangesMap, clsVars, memVars, wsVars, rngVars>>

----------------------------------------------------------------------------
(* Workspace Resolver: WorkspaceUtils                                      *)

\* the directories of the repository that a workspace pattern can reach, in
\* the order the path expansion lists them
P_a_s == <<"p", "/", "a", "/", "s">>
FsDirs == <<P_a, P_ab, P_a_s>>

Star == <<"*">>

\* glob, for patterns made of literal segments and "*" (any one segment)
GlobMatches(pattern, dir) ==
    LET ps == Split(pattern)
        ds == Split(dir)
    IN  /\ Len(ps) = Len(ds)
        /\ \A i \in 1..Len(ps) : ps[i] = Star \/ ps[i] = ds[i]

\* a workspaces entry glob cannot process: the call throws
BadPattern == <<"[">>

\* glob(pattern, {cwd: rootPath, absolute: false})
glob(pattern) ==
    IF pattern = BadPattern THEN [threw |-> TRUE, paths |-> <<>>]
    ELSE [threw |-> FALSE,
          paths |-> SelectSeq(FsDirs, LAMBDA d : GlobMatches(pattern, d))]

\* path.basename
basename(p) ==
    LET segs == SelectSeq(Split(p), LAMBDA seg : seg # <<>>)
    IN  IF Len(segs) = 0 THEN <<>> ELSE segs[Len(segs)]

\* the order String.prototype.localeCompare gives to the characters used
CharRank(c) ==
    CASE c = "." -> 1
      [] c = "/" -> 2
      [] c = "[" -> 3
      [] c = "*" -> 4
      [] c = "a" -> 5
      [] c = "b" -> 6
      [] c = "p" -> 7
      [] c = "s" -> 8
      [] OTHER -> 9

RECURSIVE localeLess(_, _)
\* a.localeCompare(b) < 0
localeLess(a, b) ==
    IF Len(b) = 0 THEN FALSE
    ELSE IF Len(a) = 0 THEN TRUE
    ELSE IF CharRank(a[1]) # CharRank(b[1]) THEN CharRank(a[1]) < CharRank(b[1])
    ELSE localeLess(Tail(a), Tail(b))

RECURSIVE InsertByName(_, _)
InsertByName(sorted, m) ==
    IF Len(sorted) = 0 THEN <<m>>
    ELSE IF localeLess(m.name, Head(sorted).name) THEN <<m>> \o sorted
    ELSE <<Head(sorted)>> \o InsertByName(Tail(sorted), m)

RECURSIVE sortByName(_)
\* members.sort((a, b) => a.name.localeCompare(b.name)); the sort is stable
sortByName(ms) ==
    IF Len(ms) = 0 THEN <<>>
    ELSE InsertByName(sortByName(SubSeq(ms, 1, Len(ms) - 1)), ms[Len(ms)])

\* The instance fields, as one record st: rootPackageJson, isMonorepo and
\* workspaceMembers, each null until first computed; st.discoveryRuns counts
\* the entries into the discovery loop.  An operation is an operator from
\* the fields before the call to [st, threw, value].

\* a package.json as far as the resolver reads it.  Root: workspaces is
\* absent, an array of patterns, or an object {packages}.  Member: name.
Returned(st, v) == [st |-> st, threw |-> FALSE, value |-> v]
Threw(st) == [st |-> st, threw |-> TRUE, value |-> Null]

\* getRootPackageJson answering an unreadable manifest with an empty one
getRootPackageJson_defaultsOnFailure(st) ==
    IF st.rootPackageJson # Null THEN Returned(st, st.rootPackageJson[1])
    ELSE IF ~rootManifest.readable
        THEN Returned(st, [readable |-> TRUE,
                           workspaces |-> [form |-> "absent", patterns |-> <<>>]])
    ELSE Returned([st EXCEPT !.rootPackageJson = Some(rootManifest)], rootManifest)

getRootPackageJson(st) ==
    IF st.rootPackageJson # Null THEN Returned(st, st.rootPackageJson[1])
    ELSE IF ~rootManifest.readable THEN Threw(st)
    ELSE Returned([st EXCEPT !.rootPackageJson = Some(rootManifest)], rootManifest)

getIsMonorepo(st) ==
    IF st.isMonorepo # Null THEN Returned(st, st.isMonorepo[1])
    ELSE LET r == getRootPackageJson(st)
             v == IF r.threw THEN FALSE
                  ELSE /\ r.value.workspaces.form = "array"
                       /\ Len(r.value.workspaces.patterns) > 0
         IN  Returned([r.st EXCEPT !.isMonorepo = Some(v)], v)

\* the body of "for (const relativePath of matchingPaths)"
RECURSIVE collectMembers(_, _)
collectMembers(paths, members) ==
    IF Len(paths) = 0 THEN members
    ELSE LET relativePath == Head(paths)
             file == dirManifest[relativePath]
         IN  IF file.kind = "missing" \/ file.kind = "invalid"
                 THEN collectMembers(Tail(paths), members)
             ELSE collectMembers(Tail(paths),
                      Append(members,
                          [name |-> IF Len(file.name) > 0 THEN file.name
                                    ELSE basename(relativePath),
                           relativePath |-> relativePath]))

\* the loop over the patterns given up at the first pattern glob rejects
RECURSIVE discoverMembers_stopAtFailedPattern(_, _)
discoverMembers_stopAtFailedPattern(patterns, members) ==
    IF Len(patterns) = 0 THEN members
    ELSE LET matchingPaths == glob(Head(patterns))
         IN  IF matchingPaths.threw THEN members
             ELSE discoverMembers_stopAtFailedPattern(Tail(patterns),
                      collectMembers(matchingPaths.paths, members))

\* the body of "for (const pattern of workspacePatterns)"
RECURSIVE discoverMembers(_, _)
discoverMembers(patterns, members) ==
    IF Len(patterns) = 0 THEN members
    ELSE LET matchingPaths == glob(Head(patterns))
         IN  IF matchingPaths.threw THEN discoverMembers(Tail(patterns), members)
             ELSE discoverMembers(Tail(patterns),
                                  collectMembers(matchingPaths.paths, members))

\* getWorkspacePackages without the check of the cached list
getWorkspacePackages_noCache(st) ==
    LET m == getIsMonorepo(st)
    IN  IF ~m.value
            THEN Returned([m.st EXCEPT !.workspaceMembers = Some(<<>>)], <<>>)
        ELSE LET r == getRootPackageJson(m.st)
             IN  IF r.threw THEN Threw(r.st)
                 ELSE LET workspacePatterns == r.value.workspaces.patterns
                          members == sortByName(discoverMembers(workspacePatterns, <<>>))
                      IN  Returned([r.st EXCEPT !.workspaceMembers = Some(members),
                                                !.discoveryRuns = @ + 1],
                                   members)

getWorkspacePackages(st) ==
    IF st.workspaceMembers # Null THEN Returned(st, st.workspaceMembers[1])
    ELSE LET m == getIsMonorepo(st)
         IN  IF ~m.value
                 THEN Returned([m.st EXCEPT !.workspaceMembers = Some(<<>>)], <<>>)
             ELSE LET r == getRootPackageJson(m.st)
                  IN  IF r.threw THEN Threw(r.st)
                      ELSE LET workspacePatterns == r.value.workspaces.patterns
                               members == sortByName(discoverMembers(workspacePatterns, <<>>))
                           IN  Returned([r.st EXCEPT !.workspaceMembers = Some(members),
                                                     !.discoveryRuns = @ + 1],
                                        members)

\* Array.prototype.find: the first element that satisfies the test, or none
Find(s, Test(_)) ==
    LET hits == SelectSeq(s, Test)
    IN  IF Len(hits) = 0 THEN Null ELSE Some(hits[1])

findPackageByName(st, name) ==
    LET r == getWorkspacePackages(st)
    IN  IF r.threw THEN Threw(r.st)
        ELSE Returned(r.st, Find(r.value, LAMBDA pkg : pkg.name = name))

findPackageByPath_naivePrefix(st, relativePath) ==
    LET r == getWorkspacePackages(st)
    IN  IF r.threw THEN Threw(r.st)
        ELSE LET exactMatch == Find(r.value, LAMBDA pkg : pkg.relativePath = relativePath)
             IN  IF exactMatch # Null THEN Returned(r.st, exactMatch)
                 ELSE Returned(r.st, Find(r.value, LAMBDA pkg :
                          StartsWith(relativePath, pkg.relativePath)))

findPackageByPath(st, relativePath) ==
    LET r == getWorkspacePackages(st)
    IN  IF r.threw THEN Threw(r.st)
        ELSE LET exactMatch == Find(r.value, LAMBDA pkg : pkg.relativePath = relativePath)
             IN  IF exactMatch # Null THEN Returned(r.st, exactMatch)
                 ELSE Returned(r.st, Find(r.value, LAMBDA pkg :
                          \/ StartsWith(relativePath, pkg.relativePath \o <<sep>>)
                          \/ relativePath = pkg.relativePath))

\* Environment: the root manifest and the manifest of every directory
WsPatterns == {<<"p", "/", "*">>, P_a, <<"p", "/", "a", "/", "*">>, BadPattern}
RootManifests ==
    {[readable |-> FALSE, workspaces |-> [form |-> "absent", patterns |-> <<>>]],
     [readable |-> TRUE, workspaces |-> [form |-> "absent", patterns |-> <<>>]]}
    \cup [readable : {TRUE},
          workspaces : [form : {"array", "object"},
                        patterns : SeqsUpTo(WsPatterns, MaxPatterns)]]
DirManifests ==
    {[kind |-> "missing", name |-> <<>>], [kind |-> "invalid", name |-> <<>>],
     [kind |-> "ok", name |-> <<>>], [kind |-> "ok", name |-> <<"b">>]}

\* arguments of the lookups
WsQueryNames == {<<"a">>, <<"a", "b">>, <<"b">>, <<"s">>}
WsQueryPaths ==
    {P_a, P_ab, P_a \o <<"/", "x">>, P_ab \o <<"/", "x">>, P_a_s \o <<"/", "x">>, <<"x">>}

instance == [rootPackageJson |-> rootPackageJson,
             isMonorepo |-> isMonorepo,
             workspaceMembers |-> workspaceMembers,
             discoveryRuns |-> discoveryRuns]

\* the effect of a completed call on the instance fields, and its result
WsEffect(r) ==
    /\ rootPackageJson' = r.st.rootPackageJson
    /\ isMonorepo' = r.st.isMonorepo
    /\ workspaceMembers' = r.st.workspaceMembers
    /\ discoveryRuns' = r.st.discoveryRuns
    /\ wsReturn' = [threw |-> r.threw, value |-> r.value]
    /\ UNCHANGED <<rootManifest, dirManifest, calls, clsVars, memVars, aggVars, rngVars>>

\* Each action is one call of an operation on the instance, run to completion.
GetRootPackageJson ==
    /\ wsCall' = [op |-> "getRootPackageJson", arg |-> <<>>]
    /\ WsEffect(getRootPackageJson(instance))

GetIsMonorepo ==
    /\ wsCall' = [op |-> "getIsMonorepo", arg |-> <<>>]
    /\ WsEffect(getIsMonorepo(instance))

GetWorkspacePackages ==
    /\ wsCall' = [op |-> "getWorkspacePackages", arg |-> <<>>]
    /\ WsEffect(getWorkspacePackages(instance))

FindPackageByName(name) ==
    /\ wsCall' = [op |-> "findPackageByName", arg |-> name]
    /\ WsEffect(findPackageByName(instance, name))

FindPackageByPath(p) ==
    /\ wsCall' = [op |-> "findPackageByPath", arg |-> p]
    /\ WsEffect(findPackageByPath(instance, p))

WsFresh ==
    /\ rootPackageJson = Null
    /\ isMonorepo = Null
    /\ workspaceMembers = Null
    /\ discoveryRuns = 0
    /\ calls = <<>>
    /\ wsCall = [op |-> "none", arg |-> <<>>]
    /\ wsReturn = [threw |-> FALSE, value |-> Null]

WsIdle ==
    /\ rootManifest = [readable |-> FALSE, workspaces |-> [form |-> "absent", patterns |-> <<>>]]
    /\ dirManifest = [d \in Range(FsDirs) |-> [kind |-> "missing", name |-> <<>>]]
    /\ WsFresh

----------------------------------------------------------------------------
(* WorkspaceUtils with overlapping calls.  A call runs until its next      *)
(* await and is resumed when the awaited promise settles; between the two  *)
(* any other call may start or be resumed.  calls[i].pc is the await the   *)
(* call is suspended at, calls[i].patterns and calls[i].paths are its      *)
(* locals (the patterns from the current one on, the matching paths from   *)
(* the current one on), calls[i].packages is the list its                  *)
(* getWorkspacePackages returned and calls[i].value what the call resolved *)
(* with.  The awaits inside getIsMonorepo are not separated: every caller  *)
(* writes the same rootPackageJson and isMonorepo.                         *)

AsyncOps ==
    {[op |-> "getWorkspacePackages", arg |-> <<>>],
     [op |-> "findPackageByName", arg |-> <<"a", "b">>],
     [op |-> "findPackageByPath", arg |-> P_ab]}

\* what the call makes of the list its getWorkspacePackages returned
resolveWith(c, packages) ==
    LET st == [instance EXCEPT !.workspaceMembers = Some(packages)]
    IN  IF c.op = "findPackageByName" THEN findPackageByName(st, c.arg).value
        ELSE IF c.op = "findPackageByPath" THEN findPackageByPath(st, c.arg).value
        ELSE packages

\* "return this.workspaceMembers", the array as it is at that moment
returned(c, packages) ==
    [c EXCEPT !.pc = "done", !.patterns = <<>>, !.paths = <<>>,
              !.packages = Some(packages), !.value = resolveWith(c, packages)]

\* the top of "for (const pattern of workspacePatterns)": await glob for
\* the next pattern, or after the last one sort the list and return it
nextPattern(c, patterns, members) ==
    IF Len(patterns) > 0
        THEN [call |-> [c EXCEPT !.pc = "glob", !.patterns = patterns, !.paths = <<>>],
              members |-> members]
    ELSE [call |-> returned(c, sortByName(members)), members |-> sortByName(members)]

\* the top of "for (const relativePath of matchingPaths)": await
\* file.exists() for the next path, or go on to the next pattern
nextPath(c, paths, members) ==
    IF Len(paths) > 0
        THEN [call |-> [c EXCEPT !.pc = "exists", !.paths = paths], members |-> members]
    ELSE nextPattern(c, Tail(c.patterns), members)

AsyncEffect(i, r) ==
    /\ calls' = [calls EXCEPT ![i] = r.call]
    /\ workspaceMembers' = Some(r.members)
    /\ UNCHANGED <<rootManifest, dirManifest, rootPackageJson, isMonorepo,
                   discoveryRuns, wsCall, wsReturn, clsVars, memVars, aggVars, rngVars>>

\* a call starts: the check of the cached list, then await getIsMonorepo()
StartCall(o) ==
    /\ Len(calls) < MaxCalls
    /\ LET c == [op |-> o.op, arg |-> o.arg, pc |-> "getIsMonorepo",
                 overlapped |-> \E i \in 1..Len(calls) : calls[i].pc # "done",
                 patterns |-> <<>>, paths |-> <<>>, packages |-> Null, value |-> Null]
       IN  calls' = Append(calls, IF workspaceMembers # Null
                                      THEN returned(c, workspaceMembers[1])
                                  ELSE c)
    /\ UNCHANGED <<rootManifest, dirManifest, rootPackageJson, isMonorepo,
                   workspaceMembers, discoveryRuns, wsCall, wsReturn,
                   clsVars, memVars, aggVars, rngVars>>

\* resumed after "await this.getIsMonorepo()"
AwaitGetIsMonorepo(i) ==
    /\ i <= Len(calls)
    /\ calls[i].pc = "getIsMonorepo"
    /\ LET m == getIsMonorepo(instance)
       IN  /\ rootPackageJson' = m.st.rootPackageJson
           /\ isMonorepo' = m.st.isMonorepo
           /\ IF ~m.value
                  THEN /\ workspaceMembers' = Some(<<>>)
                       /\ calls' = [calls EXCEPT ![i] = returned(calls[i], <<>>)]
              ELSE /\ calls' = [calls EXCEPT ![i].pc = "getRootPackageJson"]
                   /\ UNCHANGED workspaceMembers
    /\ UNCHANGED <<rootManifest, dirManifest, discoveryRuns, wsCall, wsReturn,
                   clsVars, memVars, aggVars, rngVars>>

\* resumed after "await this.getRootPackageJson()": the patterns are read,
\* this.workspaceMembers = [], and the loop is entered
AwaitGetRootPackageJson(i) ==
    /\ i <= Len(calls)
    /\ calls[i].pc = "getRootPackageJson"
    /\ LET r == getRootPackageJson(instance)
           n == nextPattern(calls[i], r.value.workspaces.patterns, <<>>)
       IN  /\ ~r.threw
           /\ calls' = [calls EXCEPT ![i] = n.call]
           /\ workspaceMembers' = Some(n.members)
    /\ discoveryRuns' = discoveryRuns + 1
    /\ UNCHANGED <<rootManifest, dirManifest, rootPackageJson, isMonorepo,
                   wsCall, wsReturn, clsVars, memVars, aggVars, rngVars>>

\* resumed after "await glob(pattern, ...)"
AwaitGlob(i) ==
    /\ i <= Len(calls)
    /\ calls[i].pc = "glob"
    /\ LET matchingPaths == glob(Head(calls[i].patterns))
       IN  AsyncEffect(i, IF matchingPaths.threw
                              THEN nextPattern(calls[i], Tail(calls[i].patterns),
                                               workspaceMembers[1])
                          ELSE nextPath(calls[i], matchingPaths.paths,
                                        workspaceMembers[1]))

\* resumed after "await file.exists()"
AwaitExists(i) ==
    /\ i <= Len(calls)
    /\ calls[i].pc = "exists"
    /\ LET file == dirManifest[Head(calls[i].paths)]
       IN  AsyncEffect(i, IF file.kind = "missing"
                              THEN nextPath(calls[i], Tail(calls[i].paths),
                                            workspaceMembers[1])
                          ELSE [call |-> [calls[i] EXCEPT !.pc = "json"],
                                members |-> workspaceMembers[1]])

\* resumed after "await file.json()": this.workspaceMembers.push(...)
AwaitJson(i) ==
    /\ i <= Len(calls)
    /\ calls[i].pc = "json"
    /\ LET relativePath == Head(calls[i].paths)
       IN  AsyncEffect(i, nextPath(calls[i], Tail(calls[i].paths),
                                   IF dirManifest[relativePath].kind = "invalid"
                                       THEN workspaceMembers[1]
                                   ELSE collectMembers(<<relativePath>>,
                                                       workspaceMembers[1])))

----------------------------------------------------------------------------
(* Tag/Version Indexer and History Fetcher: GitUtils.getAllTags,           *)
(* getLatestVersionTag, getCommitsInRange                                  *)

\* The repository is a linear history of Len(history) >= 1 commits, oldest
\* first; commit i has full hash Hashes[i] and short hash ShortHashes[i].
\* history[i] is what git log prints for commit i: a sequence of lines, each
\* line given by its "|"-separated parts (the empty line is <<"">>).
Hashes == <<"c1", "c2", "c3", "c4">>
ShortHashes == <<"s1", "s2", "s3", "s4">>

BlankLine == <<"">>

\* line.trim() === ""
IsBlank(line) == line = BlankLine

LogLine(i, subject, body) ==
    <<Hashes[i], ShortHashes[i], "an", "ae", "2024-01-15", subject, body>>

\* what "%H|%h|%an|%ae|%aI|%s|%b" prints for commit i: one line when the body
\* is empty; a body is followed by an empty line; the second line of a
\* two-line body is a line of its own
LogEntries(i) ==
    {<<LogLine(i, "feat: x", "")>>,
     <<LogLine(i, "fix: y", "BREAKING CHANGE: z"), BlankLine>>,
     <<LogLine(i, "chore: w", "l1"), <<"l2">>, BlankLine>>}

\* raw tag lines by their tab-separated parts: hash, date, name
TagLines ==
    {<<"s1", "2024-01-16", "1.1.0-beta">>,
     <<"s1", "2024-01-15", "v1.0.0">>,
     <<"s1", "2024-01-14", "latest">>,
     <<"s1", "2024-01-13">>,
     <<"s1", "", "v0.1.0">>,
     BlankLine}

\* name.match(/^v?(\d+)\.(\d+)\.(\d+)(?:-(.+))?$/), on the names used
IsVersionName(name) == name \in {"v1.0.0", "1.1.0-beta", "v0.1.0"}

\* the loop stopping at the first malformed line instead of skipping it
RECURSIVE parseTags_stopAtMalformed(_)
parseTags_stopAtMalformed(lines) ==
    IF Len(lines) = 0 THEN <<>>
    ELSE LET tag == Head(lines)
         IN  IF IsBlank(tag) THEN parseTags_stopAtMalformed(Tail(lines))
             ELSE IF Len(tag) < 3 \/ tag[1] = "" \/ tag[2] = "" \/ tag[3] = ""
                 THEN <<>>
             ELSE <<[name |-> tag[3], hash |-> tag[1], date |-> tag[2],
                     isVersionTag |-> IsVersionName(tag[3])]>>
                  \o parseTags_stopAtMalformed(Tail(lines))

\* the loop of getAllTags over the lines git prints
RECURSIVE parseTags(_)
parseTags(lines) ==
    IF Len(lines) = 0 THEN <<>>
    ELSE LET tag == Head(lines)
         IN  IF IsBlank(tag) \/ Len(tag) < 3 \/ tag[1] = "" \/ tag[2] = "" \/ tag[3] = ""
                 THEN parseTags(Tail(lines))
             ELSE <<[name |-> tag[3], hash |-> tag[1], date |-> tag[2],
                     isVersionTag |-> IsVersionName(tag[3])]>>
                  \o parseTags(Tail(lines))

\* a failing git tag is caught: "return empty array rather than failing"
getAllTags == IF tagListing.threw THEN <<>> ELSE parseTags(tagListing.lines)

\* the newest tag of any kind
getLatestVersionTag_anyTag ==
    IF Len(getAllTags) = 0 THEN Null ELSE Some(getAllTags[1])

\* allTags.find((tag) => tag.isVersionTag) || null
getLatestVersionTag ==
    LET hits == SelectSeq(getAllTags, LAMBDA tag : tag.isVersionTag)
    IN  IF Len(hits) = 0 THEN Null ELSE Some(hits[1])

\* git's resolution of a ref to a commit of the history; 0: no such ref
IndexOf(seq, x) ==
    IF \E i \in 1..Len(seq) : seq[i] = x
        THEN CHOOSE i \in 1..Len(seq) : seq[i] = x /\ \A j \in 1..(i - 1) : seq[j] # x
    ELSE 0

ResolveRef(ref) ==
    IF ref = "HEAD" THEN Len(history)
    ELSE IF IndexOf(Hashes, ref) \in 1..Len(history) THEN IndexOf(Hashes, ref)
    ELSE LET tagged == SelectSeq(tagListing.lines,
                           LAMBDA tag : Len(tag) >= 3 /\ tag[3] = ref)
         IN  IF Len(tagged) = 0 THEN 0 ELSE IndexOf(ShortHashes, tagged[1][1])

RECURSIVE LinesOf(_, _)
LinesOf(from, to) ==
    IF from > to THEN <<>> ELSE history[from] \o LinesOf(from + 1, to)

\* git log --format=... --reverse rangeSpec.  rangeSpec is <<ref>> (the ref
\* and all its ancestors) or <<from, to>> (from..to: the ancestors of to that
\* are not ancestors of from).  An unknown ref makes the command fail.
gitLog(rangeSpec) ==
    IF \E i \in 1..Len(rangeSpec) : ResolveRef(rangeSpec[i]) = 0
        THEN [threw |-> TRUE, lines |-> <<>>]
    ELSE IF Len(rangeSpec) = 1
        THEN [threw |-> FALSE, lines |-> LinesOf(1, ResolveRef(rangeSpec[1]))]
    ELSE [threw |-> FALSE,
          lines |-> LinesOf(ResolveRef(rangeSpec[1]) + 1, ResolveRef(rangeSpec[2]))]

\* git rev-list --max-parents=0 HEAD, trimmed
rootCommit == Hashes[1]

\* conventional-commits-parser on the full message: the type from the
\* header, the notes from the footer
conventionalCommitsParser(subject, body) ==
    [type |-> IF subject = "feat: x" THEN Some("feat")
              ELSE IF subject = "fix: y" THEN Some("fix")
              ELSE IF subject = "chore: w" THEN Some("chore")
              ELSE Null,
     notes |-> IF body = "BREAKING CHANGE: z" THEN Some(<<"BREAKING CHANGE">>)
               ELSE Some(<<>>)]

\* git diff-tree --no-commit-id --name-only -r --root hash
getChangedFilesForCommit(hash) ==
    IF hash = Hashes[1] THEN <<P_a \o <<"/", "x">>>> ELSE <<P_ab \o <<"/", "x">>>>

\* the lines of git's output that the first loop keeps in commitsResult
keptLines(lines) == SelectSeq(lines, LAMBDA result : IsBlank(result))

\* the second loop: "for (const block of commitsResult)"
RECURSIVE assembleCommits(_)
assembleCommits(blocks) ==
    IF Len(blocks) = 0 THEN <<>>
    ELSE LET parts == Head(blocks)
         IN  IF Len(parts) < 6 THEN assembleCommits(Tail(blocks))
             ELSE LET subject == parts[6]
                      body == IF Len(parts) >= 7 THEN parts[7] ELSE ""
                      p == conventionalCommitsParser(subject, body)
                  IN  <<[hash |-> parts[1],
                         shortHash |-> parts[2],
                         rawMessage |-> IF body # "" THEN <<subject, body>> ELSE <<subject>>,
                         type |-> classify(p).type,
                         isBreaking |-> classify(p).isBreaking,
                         releaseType |-> classify(p).releaseType,
                         changedFiles |-> getChangedFilesForCommit(parts[1])]>>
                      \o assembleCommits(Tail(blocks))

\* an omitted fromRef; the template literal renders it as "undefined"
Undefined == "undefined"

\* startRef, as resolved by lines 462-475
resolveStartRef(fromRef) ==
    IF fromRef = Undefined \/ fromRef = ""
        THEN IF getLatestVersionTag # Null THEN getLatestVersionTag[1].name
             ELSE rootCommit
    ELSE fromRef

\* rangeSpec, as built by lines 479-486
buildRangeSpec(startRef, toRef) ==
    IF startRef = toRef THEN <<startRef>> ELSE <<startRef, toRef>>

\* getCommitsInRange(fromRef, toRef): the locals startRef and rangeSpec, and
\* the outcome: the records returned, or the error with the range it names
getCommitsInRange(fromRef, toRef) ==
    LET startRef == resolveStartRef(fromRef)
        rangeSpec == buildRangeSpec(startRef, toRef)
        log == gitLog(rangeSpec)
        commitsResult == keptLines(log.lines)
    IN  [startRef |-> startRef,
         rangeSpec |-> rangeSpec,
         threw |-> log.threw,
         errorRange |-> IF log.threw THEN <<fromRef, toRef>> ELSE <<>>,
         commits |-> IF log.threw \/ Len(commitsResult) = 0 THEN <<>>
                     ELSE assembleCommits(commitsResult)]

FromRefs == {Undefined, "", "HEAD", "c1", "v1.0.0", "nope"}
ToRefs == {"HEAD", "c1", "c2", "nope"}

RngFresh ==
    /\ rangeCall = [called |-> FALSE, fromRef |-> Undefined, toRef |-> "HEAD"]
    /\ rangeReturn = [startRef |-> "", rangeSpec |-> <<>>, threw |-> FALSE,
                      errorRange |-> <<>>, commits |-> <<>>]
    /\ tagsReturn = [called |-> FALSE, tags |-> <<>>]

RngIdle ==
    /\ history = <<>>
    /\ tagListing = [threw |-> FALSE, lines |-> <<>>]
    /\ RngFresh

\* one call of getCommitsInRange, run to completion
GetCommitsInRange(fromRef, toRef) ==
    /\ rangeCall' = [called |-> TRUE, fromRef |-> fromRef, toRef |-> toRef]
    /\ rangeReturn' = getCommitsInRange(fromRef, toRef)
    /\ UNCHANGED <<history, tagListing, tagsReturn, clsVars, memVars, aggVars, wsVars>>

\* one call of getAllTags, run to completion
GetAllTags ==
    /\ tagsReturn' = [called |-> TRUE, tags |-> getAllTags]
    /\ UNCHANGED <<history, tagListing, rangeCall, rangeReturn,
                   clsVars, memVars, aggVars, wsVars>>

----------------------------------------------------------------------------
(* Inputs of the pure-function specifications                              *)

PathChars == {"a", "b", ".", "/"}

\* a repository-relative path as git prints it: non-empty segments, none of
\* them "." or ".."
IsGitPath(p) ==
    /\ Len(p) > 0
    /\ \A i \in 1..Len(Split(p)) :
           Split(p)[i] # <<>> /\ Split(p)[i] # Dot /\ Split(p)[i] # DotDot

GitPaths == {p \in SeqsUpTo(PathChars, MaxPathLen) : IsGitPath(p)}

\* a member directory as the workspace patterns give it: the root (".", or
\* ""), a directory, or a directory written with "./" or a trailing "/"
PackagePaths ==
    {<<>>, Dot, <<"a">>, <<"a", "b">>, <<".", "/", "a">>, <<"a", "/">>, <<".", "a">>}

ClsIdle == parsed = [type |-> Null, notes |-> Null] /\ classified = Null
MemIdle == filePath = <<>> /\ packagePath = <<>> /\ inPackage = Null

\* the classification step of getCommitsInRange on one parser output
Classify ==
    /\ classified = Null
    /\ classified' = Some(classify(parsed))
    /\ UNCHANGED <<parsed, memVars, aggVars, wsVars, rngVars>>

\* isFileInPackage(filePath, packagePath)
IsFileInPackageCall ==
    /\ inPackage = Null
    /\ inPackage' = Some(isFileInPackage(filePath, packagePath))
    /\ UNCHANGED <<filePath, packagePath, clsVars, aggVars, wsVars, rngVars>>

----------------------------------------------------------------------------
(* Specifications                                                          *)

InitClassify ==
    /\ parsed \in ParsedCommits
    /\ classified = Null
    /\ MemIdle /\ AggIdle /\ WsIdle /\ RngIdle
NextClassify == Classify
SpecClassify == InitClassify /\ [][NextClassify]_vars

InitMember ==
    /\ filePath \in GitPaths
    /\ packagePath \in PackagePaths
    /\ inPackage = Null
    /\ ClsIdle /\ AggIdle /\ WsIdle /\ RngIdle
NextMember == IsFileInPackageCall
SpecMember == InitMember /\ [][NextMember]_vars

InitAgg == AggIdle /\ ClsIdle /\ MemIdle /\ WsIdle /\ RngIdle
NextAgg ==
    \/ \E pkgs \in SeqsUpTo(AggMembers, MaxMembers) : AnalyzeStart(pkgs)
    \/ \E c \in AggCommitInputs : AnalyzeCommit(c)
    \/ AnalyzeReturn
SpecAgg == InitAgg /\ [][NextAgg]_vars

InitWs ==
    /\ rootManifest \in RootManifests
    /\ dirManifest \in [Range(FsDirs) -> DirManifests]
    /\ WsFresh
    /\ ClsIdle /\ MemIdle /\ AggIdle /\ RngIdle
NextWs ==
    \/ GetRootPackageJson
    \/ GetIsMonorepo
    \/ GetWorkspacePackages
    \/ \E name \in WsQueryNames : FindPackageByName(name)
    \/ \E p \in WsQueryPaths : FindPackageByPath(p)
SpecWs == InitWs /\ [][NextWs]_vars

InitWsAsync ==
    /\ rootManifest \in RootManifests
    /\ dirManifest \in [Range(FsDirs) -> DirManifests]
    /\ WsFresh
    /\ ClsIdle /\ MemIdle /\ AggIdle /\ RngIdle
NextWsAsync ==
    \/ \E o \in AsyncOps : StartCall(o)
    \/ \E i \in 1..MaxCalls : AwaitGetIsMonorepo(i)
    \/ \E i \in 1..MaxCalls : AwaitGetRootPackageJson(i)
    \/ \E i \in 1..MaxCalls : AwaitGlob(i)
    \/ \E i \in 1..MaxCalls : AwaitExists(i)
    \/ \E i \in 1..MaxCalls : AwaitJson(i)
SpecWsAsync == InitWsAsync /\ [][NextWsAsync]_vars

InitRange ==
    /\ history \in UNION {[1..h -> UNION {LogEntries(i) : i \in 1..MaxHistory}] : h \in 1..MaxHistory}
    /\ \A i \in 1..Len(history) : history[i] \in LogEntries(i)
    /\ tagListing \in
           {[threw |-> TRUE, lines |-> <<>>]}
           \cup [threw : {FALSE}, lines : SeqsUpTo(TagLines, MaxTags)]
    /\ RngFresh
    /\ ClsIdle /\ MemIdle /\ AggIdle /\ WsIdle
NextRange ==
    \/ \E fromRef \in FromRefs, toRef \in ToRefs : GetCommitsInRange(fromRef, toRef)
    \/ GetAllTags
SpecRange == InitRange /\ [][NextRange]_vars

----------------------------------------------------------------------------
(* Properties                                                              *)

Severity(t) == IF t = "major" THEN 3 ELSE IF t = "minor" THEN 2 ELSE 1

\* the maximum, under patch < minor < major, of the release types of a list
\* of commits; patch for the empty list
MaxReleaseType(cs) ==
    IF \E i \in 1..Len(cs) : cs[i].releaseType = "major" THEN "major"
    ELSE IF \E i \in 1..Len(cs) : cs[i].releaseType = "minor" THEN "minor"
    ELSE "patch"

\* C1: while analyzePackageChanges runs, after every processed prefix of the
\* commits each package's suggestedReleaseType is the maximum release type of
\* the commits attributed to it so far, and processing one more commit never
\* lowers it.
C1_MonotonicMaxFold ==
    [][/\ aggPc' # "idle" =>
            \A i \in 1..Len(packageChangesMap') :
                packageChangesMap'[i].suggestedReleaseType
                    = MaxReleaseType(packageChangesMap'[i].affectingCommits)
       /\ (aggPc = "loop" /\ aggPc' = "loop") =>
            /\ Len(packageChangesMap') = Len(packageChangesMap)
            /\ \A i \in 1..Len(packageChangesMap) :
                   Severity(packageChangesMap'[i].suggestedReleaseType)
                       >= Severity(packageChangesMap[i].suggestedReleaseType)]_vars

\* a package that saw a major commit and then a patch commit is still major
C1_Witness ==
    \E i \in 1..Len(packageChangesMap) :
        LET rec == packageChangesMap[i]
        IN  /\ Len(rec.affectingCommits) = 2
            /\ rec.affectingCommits[1].releaseType = "major"
            /\ rec.affectingCommits[2].releaseType = "patch"
            /\ rec.suggestedReleaseType = "major"

\* C2: the classification is total and follows the priority order: a note
\* titled BREAKING CHANGE gives major and isBreaking whatever the type;
\* without one isBreaking is false, feat gives minor and every other type,
\* a missing one included, gives patch.
C2_ReleaseImpactTable ==
    classified # Null =>
        LET r == classified[1]
            breaking == parsed.notes # Null /\ "BREAKING CHANGE" \in Range(parsed.notes[1])
        IN  /\ r.releaseType \in ReleaseTypes
            /\ r.isBreaking = breaking
            /\ breaking => r.releaseType = "major"
            /\ (~breaking /\ parsed.type = Some("feat")) => r.releaseType = "minor"
            /\ (~breaking /\ parsed.type # Some("feat")) => r.releaseType = "patch"

\* a fix with a BREAKING CHANGE note was classified major
C2_Witness ==
    /\ classified # Null
    /\ parsed.type = Some("fix")
    /\ parsed.notes # Null /\ "BREAKING CHANGE" \in Range(parsed.notes[1])
    /\ classified[1].releaseType = "major"
    /\ classified[1].isBreaking

\* the commits of the argument that touch a member directory, in input order
TouchingCommits(pkg) ==
    SelectSeq(commits, LAMBDA c :
        \E i \in 1..Len(c.changedFiles) : isFileInPackage(c.changedFiles[i], pkg.relativePath))

\* C3: analyzePackageChanges returns one record per member touched by some
\* commit, carrying exactly the commits that touch that member in input
\* order, and no record for a member that no commit touches.
C3_OneRecordPerTouchedMember ==
    aggPc = "done" =>
        /\ \A j \in 1..Len(workspacePackages) :
               LET pkg == workspacePackages[j]
                   recs == {i \in 1..Len(aggResult) :
                               /\ aggResult[i].packageName = pkg.name
                               /\ aggResult[i].packagePath = pkg.relativePath}
               IN  IF Len(TouchingCommits(pkg)) > 0
                       THEN /\ Cardinality(recs) = 1
                            /\ \A i \in recs :
                                   aggResult[i].affectingCommits = TouchingCommits(pkg)
                   ELSE recs = {}
        /\ \A i \in 1..Len(aggResult) :
               \E j \in 1..Len(workspacePackages) :
                   /\ aggResult[i].packageName = workspacePackages[j].name
                   /\ aggResult[i].packagePath = workspacePackages[j].relativePath

\* C8: the root member ("." or "") matches a file only if the file has no
\* path separator (a plain file or a dotfile directly at the root); a file
\* inside a directory is never attributed to the root member.
C8_RootMatchesOnlyTopLevelFiles ==
    (/\ inPackage = Some(TRUE)
     /\ (packagePath = Dot \/ packagePath = <<>>))
        => \/ ~Includes(filePath, sep)
           \/ (StartsWith(filePath, Dot) /\ ~Includes(filePath, sep))


\* changed files against which the discovered members are tested
WsFiles == {P_a \o <<"/", "x">>, P_ab \o <<"/", "x">>, P_a_s \o <<"/", "x">>, <<"x">>}

\* C6: in every member list getWorkspacePackages produces the relative paths
\* are pairwise distinct and no changed file passes the aggregator's
\* membership test for two members.
C6_MembersDistinctAndDisjoint ==
    workspaceMembers # Null =>
        LET ms == workspaceMembers[1]
        IN  /\ \A i, j \in 1..Len(ms) :
                   i # j => ms[i].relativePath # ms[j].relativePath
            /\ \A f \in WsFiles :
                   Cardinality({i \in 1..Len(ms) :
                       isFileInPackage(f, ms[i].relativePath)}) <= 1

Min(S) == CHOOSE x \in S : \A y \in S : x <= y

\* C7: findPackageByPath(p) returns a member whose relativePath equals p if
\* there is one; otherwise the first member of the name-sorted list of which
\* p is a descendant (relativePath + separator is a prefix of p); otherwise
\* none.  A path under p/a never resolves to the member p/ab.
C7_FindByPathPolicy ==
    (wsCall.op = "findPackageByPath" /\ ~wsReturn.threw) =>
        LET ms == workspaceMembers[1]
            p == wsCall.arg
            exact == {i \in 1..Len(ms) : ms[i].relativePath = p}
            below == {i \in 1..Len(ms) : StartsWith(p, ms[i].relativePath \o <<sep>>)}
        IN  /\ \A i, j \in 1..Len(ms) : i < j => ~localeLess(ms[j].name, ms[i].name)
            /\ IF exact # {} THEN wsReturn.value \in {Some(ms[i]) : i \in exact}
               ELSE IF below # {} THEN wsReturn.value = Some(ms[Min(below)])
               ELSE wsReturn.value = Null
            /\ StartsWith(p, P_a \o <<sep>>) =>
                   (wsReturn.value = Null \/ wsReturn.value[1].relativePath # P_ab)

\* p/a/x was looked up in a list where member p/ab comes before member p/a,
\* and member p/a was returned
C7_Witness ==
    /\ wsCall.op = "findPackageByPath"
    /\ wsCall.arg = P_a \o <<"/", "x">>
    /\ ~wsReturn.threw
    /\ \E i, j \in 1..Len(workspaceMembers[1]) :
           /\ i < j
           /\ workspaceMembers[1][i].relativePath = P_ab
           /\ workspaceMembers[1][j].relativePath = P_a
           /\ wsReturn.value = Some(workspaceMembers[1][j])


\* C4: in a repository without tags whose history is the root commit alone,
\* getCommitsInRange() with no fromRef and toRef "HEAD" takes the root commit
\* as lower bound and returns exactly one record, the root commit's.
C4_RootOnlyHistoryReturnsRoot ==
    (/\ rangeCall.called
     /\ rangeCall.fromRef = Undefined
     /\ rangeCall.toRef = "HEAD"
     /\ Len(history) = 1
     /\ ~tagListing.threw /\ tagListing.lines = <<>>)
        => /\ ~rangeReturn.threw
           /\ rangeReturn.startRef = Hashes[1]
           /\ Len(rangeReturn.commits) = 1
           /\ rangeReturn.commits[1].hash = Hashes[1]

\* C5: a call that does not fail returns one record for every line of the
\* log's output that has at least 6 parts, in the output's order; lines with
\* fewer parts contribute nothing.
C5_OneRecordPerWellFormedLine ==
    (rangeCall.called /\ ~rangeReturn.threw) =>
        LET wellFormed == SelectSeq(gitLog(rangeReturn.rangeSpec).lines,
                                    LAMBDA line : Len(line) >= 6)
        IN  /\ Len(rangeReturn.commits) = Len(wellFormed)
            /\ \A i \in 1..Len(wellFormed) :
                   rangeReturn.commits[i].hash = wellFormed[i][1]

\* C9: when the resolved lower bound equals toRef (an existing ref), the
\* result is exactly one record, that of the commit the ref names.
C9_SameRefDenotesOneCommit ==
    (/\ rangeCall.called
     /\ rangeReturn.startRef = rangeCall.toRef
     /\ ResolveRef(rangeCall.toRef) # 0)
        => /\ ~rangeReturn.threw
           /\ Len(rangeReturn.commits) = 1
           /\ rangeReturn.commits[1].hash = Hashes[ResolveRef(rangeCall.toRef)]

\* C10: when the range query fails the call ends in an error, returns no
\* record, and the error names the range attempted: the resolved lower bound
\* and toRef.
C10_ErrorCarriesAttemptedRange ==
    (rangeCall.called /\ rangeReturn.threw) =>
        /\ rangeReturn.commits = <<>>
        /\ rangeReturn.errorRange = <<rangeReturn.startRef, rangeCall.toRef>>

VersionLines ==
    SelectSeq(tagListing.lines,
              LAMBDA line : /\ Len(line) >= 3
                            /\ line[1] # "" /\ line[2] # "" /\ line[3] # ""
                            /\ IsVersionName(line[3]))

\* C11: a call without fromRef starts the range at the name of the first
\* version tag of the newest-first listing; a tag that is not a version tag
\* is never the lower bound, and the root commit is the lower bound only
\* when the listing has no version tag (or is empty).
C11_LowerBoundIsNewestVersionTag ==
    (rangeCall.called /\ rangeCall.fromRef = Undefined) =>
        /\ Len(VersionLines) > 0 => rangeReturn.startRef = VersionLines[1][3]
        /\ rangeReturn.startRef # "latest"
        /\ rangeReturn.startRef = rootCommit => Len(VersionLines) = 0

C11_Witness ==
    /\ rangeCall.called
    /\ rangeCall.fromRef = Undefined
    /\ Len(tagListing.lines) = 2
    /\ tagListing.lines[1] = <<"s1", "2024-01-14", "latest">>
    /\ tagListing.lines[2] = <<"s1", "2024-01-15", "v1.0.0">>
    /\ rangeReturn.startRef = "v1.0.0"

WellFormedLines ==
    SelectSeq(tagListing.lines,
              LAMBDA line : /\ Len(line) >= 3
                            /\ line[1] # "" /\ line[2] # "" /\ line[3] # "")

\* C12: getAllTags yields one tag per line that has a non-empty hash, date
\* and name, in the order of the lines; a line missing a field is dropped
\* and changes nothing about the tags of the other lines.
C12_OneTagPerWellFormedLine ==
    (tagsReturn.called /\ ~tagListing.threw) =>
        /\ Len(tagsReturn.tags) = Len(WellFormedLines)
        /\ \A i \in 1..Len(WellFormedLines) :
               /\ tagsReturn.tags[i].hash = WellFormedLines[i][1]
               /\ tagsReturn.tags[i].date = WellFormedLines[i][2]
               /\ tagsReturn.tags[i].name = WellFormedLines[i][3]

C12_Witness ==
    /\ tagsReturn.called
    /\ Len(tagListing.lines) = 2
    /\ tagListing.lines[1] = <<"s1", "2024-01-13">>
    /\ tagListing.lines[2] = <<"s1", "2024-01-15", "v1.0.0">>
    /\ Len(tagsReturn.tags) = 1
    /\ tagsReturn.tags[1].name = "v1.0.0"

IsSortedByName(ms) ==
    \A i \in 1..Len(ms), j \in 1..Len(ms) :
        i < j => ~localeLess(ms[j].name, ms[i].name)

\* C13: a completed getWorkspacePackages returns the stored member list,
\* sorted by name ascending; once the list is stored, no later call of any
\* operation changes it or enters the discovery loop again, and every later
\* getWorkspacePackages returns that same list.
C13_MembersFixedOnceComputed ==
    [][/\ (wsCall'.op = "getWorkspacePackages" /\ ~wsReturn'.threw) =>
              /\ workspaceMembers' = Some(wsReturn'.value)
              /\ IsSortedByName(wsReturn'.value)
       /\ workspaceMembers # Null =>
              /\ workspaceMembers' = workspaceMembers
              /\ discoveryRuns' = discoveryRuns
              /\ wsCall'.op = "getWorkspacePackages" =>
                     (~wsReturn'.threw /\ wsReturn'.value = workspaceMembers[1])]_vars

C13_Witness ==
    /\ wsCall.op = "getIsMonorepo"
    /\ discoveryRuns = 1
    /\ workspaceMembers # Null
    /\ Len(workspaceMembers[1]) = 2
    /\ workspaceMembers[1][1].relativePath = P_ab
    /\ workspaceMembers[1][2].relativePath = P_a

DeclaresWorkspaces ==
    /\ rootManifest.readable
    /\ rootManifest.workspaces.form \in {"array", "object"}
    /\ Len(rootManifest.workspaces.patterns) > 0

\* C14: getIsMonorepo returns true exactly when the root manifest declares
\* a non-empty list of workspace patterns, as an array or as
\* workspaces.packages, and stores what it returns; a non-empty member list
\* is stored only when isMonorepo is true.
C14_MonorepoIffPatternsDeclared ==
    /\ wsCall.op = "getIsMonorepo" =>
           /\ ~wsReturn.threw
           /\ wsReturn.value = DeclaresWorkspaces
           /\ isMonorepo = Some(wsReturn.value)
    /\ (workspaceMembers # Null /\ Len(workspaceMembers[1]) > 0) =>
           isMonorepo = Some(TRUE)

\* C15 as stated: with an unreadable root manifest every operation throws
\* and nothing is cached.
C15_EveryOperationThrows ==
    (~rootManifest.readable /\ wsCall.op # "none") =>
        /\ wsReturn.threw
        /\ isMonorepo = Null
        /\ workspaceMembers = Null

\* C15: with an unreadable root manifest only getRootPackageJson throws and
\* no manifest is cached; getIsMonorepo returns and caches false,
\* getWorkspacePackages returns and caches the empty list, and the two
\* lookups return null.
C15_OnlyGetRootPackageJsonThrows ==
    (~rootManifest.readable /\ wsCall.op # "none") =>
        /\ rootPackageJson = Null
        /\ wsReturn.threw = (wsCall.op = "getRootPackageJson")
        /\ wsCall.op = "getIsMonorepo" =>
               (wsReturn.value = FALSE /\ isMonorepo = Some(FALSE))
        /\ wsCall.op = "getWorkspacePackages" =>
               (wsReturn.value = <<>> /\ workspaceMembers = Some(<<>>))
        /\ wsCall.op \in {"findPackageByName", "findPackageByPath"} =>
               (wsReturn.value = Null /\ workspaceMembers = Some(<<>>))

C15_Witness ==
    /\ ~rootManifest.readable
    /\ wsCall.op = "getWorkspacePackages"
    /\ ~wsReturn.threw
    /\ wsReturn.value = <<>>
    /\ isMonorepo = Some(FALSE)

Candidates ==
    {d \in Range(FsDirs) :
        /\ dirManifest[d].kind = "ok"
        /\ \E k \in 1..Len(rootManifest.workspaces.patterns) :
               LET expansion == glob(rootManifest.workspaces.patterns[k])
               IN  ~expansion.threw /\ d \in Range(expansion.paths)}

\* C16: when the discovery loop has run, the member list holds exactly the
\* directories that some pattern with a successful expansion matches and
\* whose manifest parses, each under its manifest name or its basename; a
\* missing or unparseable manifest and a failing pattern add nothing and
\* stop nothing.
C16_CollectOrSkipFold ==
    (workspaceMembers # Null /\ discoveryRuns > 0) =>
        LET ms == workspaceMembers[1]
        IN  /\ {ms[i].relativePath : i \in 1..Len(ms)} = Candidates
            /\ \A i \in 1..Len(ms) :
                   ms[i].name = IF Len(dirManifest[ms[i].relativePath].name) > 0
                                    THEN dirManifest[ms[i].relativePath].name
                                ELSE basename(ms[i].relativePath)

C16_Witness ==
    /\ rootManifest.workspaces.patterns = <<BadPattern, <<"p", "/", "*">> >>
    /\ dirManifest[P_a].kind = "invalid"
    /\ dirManifest[P_ab].kind = "ok"
    /\ discoveryRuns = 1
    /\ workspaceMembers # Null
    /\ Len(workspaceMembers[1]) = 1
    /\ workspaceMembers[1][1].relativePath = P_ab

CompleteList ==
    getWorkspacePackages([rootPackageJson |-> Null, isMonorepo |-> Null,
                          workspaceMembers |-> Null, discoveryRuns |-> 0]).value

\* C17: when calls overlap, every call that started while an earlier one
\* was suspended gets the list a lone getWorkspacePackages returns (all
\* members, sorted by name), the same list as every earlier call, and the
\* stored list never holds more entries than that list.
C17_OverlappingCallsSeeCompleteList ==
    /\ \A i \in 1..Len(calls) :
           (calls[i].pc = "done" /\ calls[i].overlapped) =>
               /\ calls[i].packages = Some(CompleteList)
               /\ \A j \in 1..(i - 1) :
                      calls[j].pc = "done" => calls[j].packages = calls[i].packages
    /\ (workspaceMembers # Null /\ \E i \in 1..Len(calls) : calls[i].overlapped) =>
           Len(workspaceMembers[1]) <= Len(CompleteList)

============================================================================
